---------------------------- MODULE Spec2Model ----------------------------
(***************************************************************************)
(* Model of the CodeQL database acquisition code of Vulnhalla              *)
(* (src/src/codeql/fetch_repos.py): the resumable download                 *)
(* (custom_download), the rate-limit governor (validate_rate_limit) and    *)
(* the bulk orchestrator (fetch_codeql_dbs).                               *)
(***************************************************************************)
EXTENDS Integers, Sequences, FiniteSets, TLC

(***************************************************************************)
(* Bounds of the model.                                                    *)
(***************************************************************************)
\* largest max_attempts a caller passes (the default is 5; 7 makes the cap
\* of the backoff, 2^6 > 60, happen)
MaxTries == 7
\* bytes per chunk of iter_content (8192 in the code, scaled down)
ChunkSize == 1
\* largest threads argument
MaxThreads == 4
\* largest remaining quota of the platform when validate_rate_limit is called
MaxQuota == 8
\* largest max_repos of a bulk run
MaxRepos == 3
\* search pages a bulk run may request
MaxPage == 3
\* re-issues of one API request that reported no remaining quota
MaxReissue == 1

(***************************************************************************)
(* Program constants                                                       *)
(***************************************************************************)
\* if int(remaining_requests) < threads + 3
SafetyMargin == 3
\* wait_time = int(reset_time) - int(time.time()) + 120
ResetBuffer == 120

VARIABLES
    \* ---- custom_download -------------------------------------------------
    local_file,           \* the destination file: [exists, data]
    artifact,             \* the bytes the server holds for the url
    max_attempts,         \* parameter
    attempt,              \* parameter of the innermost active call
    force_full_download,  \* parameter of the innermost active call
    file_size,            \* local of the innermost call
    range_hdr,            \* headers["Range"]: {} (absent) or {offset}
    mode,                 \* mode the file was opened in: "ab", "wb", "" (not opened)
    body,                 \* bytes of the response body not yet read
    status,               \* status of the answer to the last request, 0: none
    dl_pc,                \* "enter", "sent", "stream", "done", "raised"
    dl_exc,               \* exception leaving the outermost call, "" if none
    n_requests,           \* requests.get calls made by this custom_download
    sleeps,               \* the time.sleep arguments, in order
    depth,                \* active custom_download frames
    \* history of the call, for the properties
    call_file,            \* the destination file when the call started
    call_fff,             \* force_full_download the call started with
    prev_status,          \* status the previous attempt ended with, 0: none
    ranged_full,          \* some ranged request was answered 200 (full body)
    failures,             \* attempts that ended in a retryable failure
    seen_416,             \* history: an attempt of this call was answered 416
    \* ---- validate_rate_limit ---------------------------------------------
    threads,              \* parameter
    clock,                \* time.time() of this machine
    skew,                 \* this machine's clock minus the platform's clock
    q_remaining,          \* platform: core requests left in the current window
    q_reset,              \* platform: instant (platform clock) the window ends
    q_limit,              \* platform: core requests of a full window
    remaining_requests,   \* snapshot: resources.core.remaining
    reset_time,           \* snapshot: resources.core.reset
    wait_time,            \* seconds slept by the call, 0 if it did not sleep
    call_clock,           \* history: the clock when the decision was taken
    rl_pc,                \* "idle", "call", "snapshot", "returned", "raised"
    \* ---- fetch_codeql_dbs, bulk mode -------------------------------------
    token,                \* get_github_token() is set
    max_repos,            \* parameter
    backup_file,          \* the checkpoint file: [exists, data]
    twin_file,            \* the checkpoint file of the same run begun over
                          \* another pre-existing checkpoint
    repos_db,             \* descriptors collected so far / to install
    curr_page,            \* search page requested next
    all_repos,            \* candidates of the current page not yet resolved
    idx,                  \* i of the install loop (0-based)
    b_pc,                 \* position in fetch_codeql_dbs
    b_exc,                \* exception leaving fetch_codeql_dbs, "" if none
    api_reissues,         \* re-issues of the current API request
    pre_checked,          \* validate_rate_limit ran since the last request
    last_req,             \* the last request sent: [kind, ok, pre, post]
    \* history of the run, for the properties
    completed,            \* installs that have completed
    ckpt_written,         \* the run has written the checkpoint file
    ckpt_failed,          \* a write of the checkpoint file has failed
    \* ---- download_and_extract_db ------------------------------------------
    i_pc,                 \* "idle", "download", "unzip", "rename", "returned", "raised"
    i_exc,                \* exception leaving download_and_extract_db, "" if none
    arch_tops,            \* top-level directories of the artifact's archive
    zip_file,             \* staged archive: "none", "good", "badzip", "badcrc"
    db_dir,               \* names present in output/databases/<lang>/<repo>/
    db_markers,           \* those of them that hold codeql-database.yml
    rename_tries,         \* attempt of the rename loop (0-based)
    rename_sleeps,        \* history: the sleeps of the rename loop of this
                          \* call, in tenths of a second
    runs,                 \* download_and_extract_db calls started
    first_dir,            \* history: db_dir when the first call returned
    first_markers,        \* history: db_markers when the first call returned
    \* ---- fetch_codeql_dbs, single-repository mode, and analyze_pipeline ----
    lang,                 \* parameter
    local_source_dir,     \* parameter: "None" or "local"
    tool,                 \* the builder: "ok", "missing", "fails"
    s_pc,                 \* position in download_db_by_name / analyze_pipeline
    s_exc,                \* exception leaving fetch_codeql_dbs, "" if none
    lookup,               \* outcome of the resolver call, "" before it
    clone_dir,            \* output/sources/<lang>/<repo> holds a clone
    build_call,           \* create_database call: [called, source_root, cwd, spawned]
    queries_run,          \* compile_and_run_codeql_queries was invoked
    \* history of the run, for the properties
    cfg_seen,             \* an API call or download raised CodeQLConfigError
    clone_started,        \* clone_repo was called
    acquired,             \* the run installed or built a database, or found one
    \* ---- filter_repos_by_db_and_lang ---------------------------------------
    r_lang,               \* parameter lang
    r_cands,              \* parameter repos, each with the answer its listing gets
    r_i,                  \* candidates handled so far
    r_out,                \* repos_db
    r_pc,                 \* "idle", "loop", "returned", "raised"
    r_exc,                \* exception leaving the function, "" if none
    \* ---- fetch_repos_from_github_api, one call ------------------------------
    a_pc,                 \* "idle", "send", "returned", "raised"
    a_exc,                \* exception leaving the call, "" if none
    a_depth,              \* nested re-issues of the request so far
    a_now,                \* int(time.time()) on this machine
    a_reply,              \* the answer to the last request
    a_slept               \* seconds slept after the last answer

dlVars == <<local_file, artifact, max_attempts, attempt, force_full_download,
            file_size, range_hdr, mode, body, status, dl_pc, dl_exc,
            n_requests, sleeps, depth, call_file, call_fff, prev_status,
            ranged_full, failures, seen_416>>

rlVars == <<threads, clock, skew, q_remaining, q_reset, q_limit,
            remaining_requests, reset_time, wait_time, call_clock, rl_pc>>

bulkVars == <<token, max_repos, backup_file, twin_file, repos_db, curr_page, all_repos,
              idx, b_pc, b_exc, api_reissues, pre_checked, last_req, completed,
              ckpt_written, ckpt_failed>>

instVars == <<i_pc, i_exc, arch_tops, zip_file, db_dir, db_markers,
              rename_tries, rename_sleeps, runs, first_dir, first_markers>>

singleVars == <<lang, local_source_dir, tool, s_pc, s_exc, lookup, clone_dir,
                build_call, queries_run, cfg_seen, clone_started, acquired>>

resVars == <<r_lang, r_cands, r_i, r_out, r_pc, r_exc>>

apiVars == <<a_pc, a_exc, a_depth, a_now, a_reply, a_slept>>

vars == <<dlVars, rlVars, bulkVars, instVars, singleVars, resVars, apiVars>>

(***************************************************************************)
(* Helpers                                                                 *)
(***************************************************************************)
Min(a, b) == IF a < b THEN a ELSE b

RECURSIVE Pow2(_)
Pow2(n) == IF n = 0 THEN 1 ELSE 2 * Pow2(n - 1)

IsPrefix(s, t) == Len(s) <= Len(t) /\ SubSeq(t, 1, Len(s)) = s

NoFile == [exists |-> FALSE, data |-> <<>>]
File(d) == [exists |-> TRUE, data |-> d]

(***************************************************************************)
(* Archives.  A byte is one of "a", "b", "c" (member data), "X" (member    *)
(* data whose CRC does not match) and "E" (the end-of-central-directory    *)
(* record).  zipfile.ZipFile(path) raises BadZipFile unless the file ends  *)
(* with the end record; testzip() RETURNS the name of the first member     *)
(* whose CRC fails (it does not raise), None when there is none.           *)
(***************************************************************************)
Byte == {"a", "b", "c", "X", "E"}

ZipFileOpens(data) == Len(data) > 0 /\ data[Len(data)] = "E"

TestZip(data) == IF \E i \in 1..Len(data) : data[i] = "X" THEN "bad" ELSE "None"

\* a well-formed archive: it opens and every member passes its check
ValidArchive(data) == ZipFileOpens(data) /\ TestZip(data) = "None"

\* with ... testzip() inside try/except (BadZipFile, LargeZipFile): the
\* except clause runs iff the constructor raises; testzip's result is dropped
ValidationRaises(data) == ~ZipFileOpens(data)

Artifacts == { <<"a", "E", "b", "E">>, <<"c", "E">> }

InitFiles == { NoFile, File(<<>>), File(<<"a">>), File(<<"a", "E">>),
               File(<<"X", "E">>), File(<<"c", "E">>),
               File(<<"a", "E", "b", "E">>) }

(***************************************************************************)
(* HTTP.  Response.__bool__ is Response.ok: False for a 4xx or 5xx answer. *)
(***************************************************************************)
ErrStatuses == {401, 404, 500}

ResponseBool(s) == s < 400

\* status = http_err.response.status_code if http_err.response else None
\* (0 stands for None)
HttpErrStatus(s) == IF ResponseBool(s) THEN s ELSE 0

\* what the server may answer to a request with the given Range header
ServerAnswers(rng, art) ==
    IF rng = {} THEN {200} \cup ErrStatuses
    ELSE LET off == CHOOSE n \in rng : TRUE
         IN  (IF off < Len(art) THEN {206} ELSE {416}) \cup {200} \cup ErrStatuses

\* the body of a 200 / 206 answer
ResponseBody(s, rng, art) ==
    IF s = 206
    THEN LET off == CHOOSE n \in rng : TRUE IN SubSeq(art, off + 1, Len(art))
    ELSE art

\* the backoff without its cap
BackoffUncapped(a) == Pow2(a)

\* backoff_time = min(2 ** attempt, 60)
BackoffTime(a) == Min(Pow2(a), 60)

(***************************************************************************)
(* custom_download                                                         *)
(***************************************************************************)
\* no custom_download call is modelled
DlIdle ==
    /\ local_file = NoFile
    /\ artifact = <<>>
    /\ max_attempts = 0
    /\ attempt = 0
    /\ force_full_download = FALSE
    /\ file_size = 0
    /\ range_hdr = {}
    /\ mode = ""
    /\ body = <<>>
    /\ status = 0
    /\ dl_pc = "idle"
    /\ dl_exc = ""
    /\ n_requests = 0
    /\ sleeps = <<>>
    /\ depth = 0
    /\ call_file = NoFile
    /\ call_fff = FALSE
    /\ prev_status = 0
    /\ ranged_full = FALSE
    /\ failures = 0
    /\ seen_416 = FALSE

\* no validate_rate_limit call is modelled
RlIdle ==
    /\ threads = 0
    /\ clock = 0
    /\ skew = 0
    /\ q_remaining = 0
    /\ q_reset = 0
    /\ q_limit = 0
    /\ remaining_requests = 0
    /\ reset_time = 0
    /\ wait_time = 0
    /\ call_clock = 0
    /\ rl_pc = "idle"

NoReq == [kind |-> "none", ans |-> "", ok |-> FALSE, pre |-> FALSE,
          post |-> FALSE, streams |-> 0, page |-> 0]

\* no bulk run is modelled
BulkIdle ==
    /\ token = FALSE
    /\ max_repos = 0
    /\ backup_file = NoFile
    /\ twin_file = NoFile
    /\ repos_db = <<>>
    /\ curr_page = 0
    /\ all_repos = <<>>
    /\ idx = 0
    /\ b_pc = "idle"
    /\ b_exc = ""
    /\ api_reissues = 0
    /\ pre_checked = FALSE
    /\ last_req = NoReq
    /\ completed = 0
    /\ ckpt_written = FALSE
    /\ ckpt_failed = FALSE

\* no download_and_extract_db call is modelled
InstIdle ==
    /\ i_pc = "idle"
    /\ i_exc = ""
    /\ arch_tops = {}
    /\ zip_file = "none"
    /\ db_dir = {}
    /\ db_markers = {}
    /\ rename_tries = 0
    /\ rename_sleeps = <<>>
    /\ runs = 0
    /\ first_dir = {}
    /\ first_markers = {}

\* no filter_repos_by_db_and_lang call is modelled
ResIdle ==
    /\ r_lang = ""
    /\ r_cands = <<>>
    /\ r_i = 0
    /\ r_out = <<>>
    /\ r_pc = "idle"
    /\ r_exc = ""

\* response.headers.get(...) of a header the response does not carry
Absent == 0 - 1

NoReply == [kind |-> "none", status |-> 0, rem |-> Absent, reset |-> Absent,
            json |-> FALSE]

\* no fetch_repos_from_github_api call is modelled on its own
ApiIdle ==
    /\ a_pc = "idle"
    /\ a_exc = ""
    /\ a_depth = 0
    /\ a_now = 0
    /\ a_reply = NoReply
    /\ a_slept = 0

NoBuild == [called |-> FALSE, source_root |-> "", cwd |-> "", spawned |-> FALSE]

\* no single-repository run is modelled
SingleIdle ==
    /\ lang = ""
    /\ local_source_dir = "None"
    /\ tool = "ok"
    /\ s_pc = "idle"
    /\ s_exc = ""
    /\ lookup = ""
    /\ clone_dir = FALSE
    /\ build_call = NoBuild
    /\ queries_run = FALSE
    /\ cfg_seen = FALSE
    /\ clone_started = FALSE
    /\ acquired = FALSE

DlInit ==
    /\ local_file \in InitFiles
    /\ artifact \in Artifacts
    /\ max_attempts \in 1..MaxTries
    /\ attempt = 1
    /\ force_full_download \in BOOLEAN
    /\ file_size = 0
    /\ range_hdr = {}
    /\ mode = ""
    /\ body = <<>>
    /\ status = 0
    /\ dl_pc = "enter"
    /\ dl_exc = ""
    /\ n_requests = 0
    /\ sleeps = <<>>
    /\ depth = 1
    /\ call_file = local_file
    /\ call_fff = force_full_download
    /\ prev_status = 0
    /\ ranged_full = FALSE
    /\ failures = 0
    /\ seen_416 = FALSE

\* the call ends by raising exception e
Raise(e) ==
    /\ dl_pc' = "raised"
    /\ dl_exc' = e
    /\ UNCHANGED <<attempt, force_full_download, sleeps, depth>>

\* sleep the backoff and re-invoke custom_download with attempt + 1
Reinvoke(fff) ==
    /\ sleeps' = Append(sleeps, BackoffTime(attempt))
    /\ attempt' = attempt + 1
    /\ force_full_download' = fff
    /\ depth' = depth + 1
    /\ dl_pc' = "enter"
    /\ dl_exc' = ""

\* except requests.RequestException: retry without force_full_download
RetryOrFail ==
    /\ failures' = failures + 1
    /\ IF attempt >= max_attempts
       THEN Raise("CodeQLError")
       ELSE Reinvoke(FALSE)

\* the 416 branch re-invoking without force_full_download
On416_NoForce ==
    /\ failures' = failures + 1
    /\ IF attempt < max_attempts
       THEN Reinvoke(FALSE)
       ELSE Raise("CodeQLError")

\* status == 416: retry from the beginning
On416 ==
    /\ failures' = failures + 1
    /\ IF attempt < max_attempts
       THEN Reinvoke(TRUE)
       ELSE Raise("CodeQLError")

\* the existing file is validated, the headers are set, the request is sent
DlSend ==
    /\ dl_pc = "enter"
    /\ LET checked == local_file.exists /\ ~force_full_download
           sz == IF checked THEN Len(local_file.data) ELSE 0
           corrupt == checked /\ sz > 0 /\ ValidationRaises(local_file.data)
           fs == IF corrupt THEN 0 ELSE sz
       IN  /\ local_file' = IF corrupt THEN NoFile ELSE local_file
           /\ file_size' = fs
           /\ range_hdr' = IF fs > 0 /\ ~force_full_download THEN {fs} ELSE {}
    /\ n_requests' = n_requests + 1
    /\ prev_status' = status
    /\ status' = 0
    /\ mode' = ""
    /\ body' = <<>>
    /\ dl_pc' = "sent"
    /\ UNCHANGED <<artifact, max_attempts, attempt, force_full_download, dl_exc,
                   sleeps, depth, call_file, call_fff, ranged_full, failures, seen_416>>
    /\ UNCHANGED <<rlVars, bulkVars, instVars, singleVars, resVars, apiVars>>

\* os.remove of the corrupted file fails: CodeQLError, outside the try
DlRemoveFails ==
    /\ dl_pc = "enter"
    /\ local_file.exists /\ ~force_full_download
    /\ Len(local_file.data) > 0
    /\ ValidationRaises(local_file.data)
    /\ Raise("CodeQLError")
    /\ UNCHANGED <<local_file, artifact, max_attempts, file_size, range_hdr, mode,
                   body, status, n_requests, call_file, call_fff, prev_status,
                   ranged_full, failures, seen_416>>
    /\ UNCHANGED <<rlVars, bulkVars, instVars, singleVars, resVars, apiVars>>

\* the answer's status line and headers arrive
DlResponse ==
    /\ dl_pc = "sent"
    /\ \E s \in ServerAnswers(range_hdr, artifact) :
        /\ status' = s
        /\ ranged_full' = (ranged_full \/ (s = 200 /\ range_hdr # {}))
        /\ seen_416' = (seen_416 \/ s = 416)
        /\ IF s = 416
           THEN /\ On416
                /\ UNCHANGED <<local_file, mode, body>>
           ELSE IF s >= 400
           THEN /\ IF HttpErrStatus(s) # 0 /\ 400 <= HttpErrStatus(s)
                      /\ HttpErrStatus(s) < 500
                   THEN Raise("CodeQLConfigError") /\ UNCHANGED failures
                   ELSE RetryOrFail
                /\ UNCHANGED <<local_file, mode, body>>
           ELSE \* open(local_filename, mode)
                /\ mode' = IF file_size > 0 /\ ~force_full_download
                           THEN "ab" ELSE "wb"
                /\ local_file' = IF mode' = "wb" THEN File(<<>>) ELSE local_file
                /\ body' = ResponseBody(s, range_hdr, artifact)
                /\ dl_pc' = "stream"
                /\ UNCHANGED <<attempt, force_full_download, dl_exc, sleeps, depth,
                               failures>>
    /\ UNCHANGED <<artifact, max_attempts, file_size, range_hdr, n_requests,
                   call_file, call_fff, prev_status>>
    /\ UNCHANGED <<rlVars, bulkVars, instVars, singleVars, resVars, apiVars>>

\* requests.get or iter_content raises a RequestException (reset, timeout)
DlNetworkError ==
    /\ dl_pc \in {"sent", "stream"}
    /\ RetryOrFail
    /\ status' = IF dl_pc = "sent" THEN 0 ELSE status
    /\ UNCHANGED <<local_file, artifact, max_attempts, file_size, range_hdr, mode,
                   body, n_requests, call_file, call_fff, prev_status,
                   ranged_full, seen_416>>
    /\ UNCHANGED <<rlVars, bulkVars, instVars, singleVars, resVars, apiVars>>

\* open() or file.write raises IOError / OSError: CodeQLError, no retry
DlDiskError ==
    /\ dl_pc = "stream"
    /\ Raise("CodeQLError")
    /\ UNCHANGED <<local_file, artifact, max_attempts, file_size, range_hdr, mode,
                   body, status, n_requests, call_file, call_fff, prev_status,
                   ranged_full, failures, seen_416>>
    /\ UNCHANGED <<rlVars, bulkVars, instVars, singleVars, resVars, apiVars>>

\* one chunk of the body is written to the file
DlChunk ==
    /\ dl_pc = "stream"
    /\ body # <<>>
    /\ LET k == Min(ChunkSize, Len(body))
       IN  /\ local_file' = File(local_file.data \o SubSeq(body, 1, k))
           /\ body' = SubSeq(body, k + 1, Len(body))
    /\ UNCHANGED <<artifact, max_attempts, attempt, force_full_download,
                   file_size, range_hdr, mode, status, dl_pc, dl_exc, n_requests,
                   sleeps, depth, call_file, call_fff, prev_status, ranged_full,
                   failures, seen_416>>
    /\ UNCHANGED <<rlVars, bulkVars, instVars, singleVars, resVars, apiVars>>

\* the body is exhausted: the call returns
DlComplete ==
    /\ dl_pc = "stream"
    /\ body = <<>>
    /\ dl_pc' = "done"
    /\ UNCHANGED <<local_file, artifact, max_attempts, attempt,
                   force_full_download, file_size, range_hdr, mode, body, status,
                   dl_exc, n_requests, sleeps, depth, call_file, call_fff,
                   prev_status, ranged_full, failures, seen_416>>
    /\ UNCHANGED <<rlVars, bulkVars, instVars, singleVars, resVars, apiVars>>

DlNext ==
    \/ DlSend
    \/ DlRemoveFails
    \/ DlResponse
    \/ DlNetworkError
    \/ DlDiskError
    \/ DlChunk
    \/ DlComplete

\* one custom_download call, nothing else running
InitDownload == DlInit /\ RlIdle /\ BulkIdle /\ InstIdle /\ SingleIdle /\ ResIdle /\ ApiIdle

SpecDownload == InitDownload /\ [][DlNext]_vars

(***************************************************************************)
(* Properties of custom_download                                           *)
(***************************************************************************)
\* the call started in the resume case: a well-formed archive that is a
\* proper prefix of the artifact, force_full_download false
ResumeCase ==
    /\ ~call_fff
    /\ call_file.exists
    /\ ValidArchive(call_file.data)
    /\ IsPrefix(call_file.data, artifact)
    /\ Len(call_file.data) < Len(artifact)

\* C1: a custom_download that started in the resume case and ended in
\* success leaves exactly the bytes of the artifact in the destination
\* file, whichever success status answered the ranged request.
C1_ResumeEqualsFresh ==
    (dl_pc = "done" /\ ResumeCase) => local_file = File(artifact)

\* the call started on a non-empty file that is not a well-formed archive
CorruptCase ==
    /\ ~call_fff
    /\ call_file.exists
    /\ Len(call_file.data) > 0
    /\ ~ValidArchive(call_file.data)

\* C2: a corrupted archive on disk is deleted before the first request,
\* which carries no Range header, and the body is written from offset zero.
C2_CorruptNeverResumed ==
    (CorruptCase /\ n_requests = 1) =>
        /\ range_hdr = {}
        /\ dl_pc = "sent" => ~local_file.exists
        /\ dl_pc = "stream" => mode = "wb"

\* C3: an attempt answered 4xx (other than 416) raises CodeQLConfigError;
\* no backoff sleep and no further request follow it.
C3_ClientErrorIsConfigError ==
    (status >= 400 /\ status < 500 /\ status # 416) =>
        /\ dl_pc = "raised"
        /\ dl_exc = "CodeQLConfigError"
        /\ Len(sleeps) = n_requests - 1

\* C4 (as stated): a 416 answer never makes custom_download fail, at
\* whichever attempt it arrives.
C4_Never416Fatal ==
    status = 416 => dl_pc # "raised"

\* C4 (amended): a 416 answer to an attempt before the last one is not
\* fatal: the next attempt is issued with force_full_download, carries no
\* Range header and overwrites the file from offset zero; a 416 answer to
\* the last attempt (attempt = max_attempts) raises CodeQLError.
C4_416ForcesFullDownload ==
    /\ (status = 416 /\ n_requests < max_attempts) =>
            /\ dl_pc = "enter"
            /\ force_full_download
            /\ attempt = n_requests + 1
    /\ (status = 416 /\ n_requests = max_attempts) =>
            /\ dl_pc = "raised"
            /\ dl_exc = "CodeQLError"
    /\ (prev_status = 416 /\ dl_pc \in {"sent", "stream", "done"}) =>
            /\ range_hdr = {}
            /\ dl_pc # "sent" =>
                   /\ mode = "wb"
                   /\ local_file.data \o body = artifact

\* C4 witness: an attempt that followed a 416 has rewritten an existing
\* file from offset zero and completed.
C4_Witness ==
    /\ prev_status = 416
    /\ dl_pc = "done"
    /\ call_file.exists
    /\ local_file = File(artifact)

\* C5: at most max_attempts requests in total, recursion depth at most
\* max_attempts, the k-th failed attempt is followed by a sleep of
\* min(2^k, 60) seconds, and the failure of attempt max_attempts raises
\* CodeQLError.
C5_BoundedRetry ==
    /\ n_requests <= max_attempts
    /\ depth <= max_attempts
    /\ failures <= max_attempts
    /\ Len(sleeps) = (IF failures = max_attempts THEN failures - 1 ELSE failures)
    /\ \A k \in 1..Len(sleeps) :
           sleeps[k] = (IF k <= 5 THEN Pow2(k) ELSE 60)
    /\ failures = max_attempts => (dl_pc = "raised" /\ dl_exc = "CodeQLError")

\* C5 witness: every one of the MaxTries attempts failed; the sixth sleep
\* shows the cap.
C5_Witness ==
    /\ dl_pc = "raised"
    /\ failures = max_attempts
    /\ Len(sleeps) >= 6
    /\ sleeps[6] = 60

(***************************************************************************)
(* validate_rate_limit.  The snapshot's reset instant is on the platform's *)
(* clock; the wait is computed with this machine's time.time().  The       *)
(* platform refills the quota once its own clock reaches the reset.        *)
(***************************************************************************)
\* this machine's clock minus the platform's, in seconds
Skews == {0 - 60, 0, 60, 120, 121, 300}

\* seconds (platform clock) from the call to the end of the window
ResetOffsets == {1, 100, 3600}

PlatformClock(t) == t - skew

\* the platform's remaining core quota at instant t of this machine's clock
PlatformRemaining(t) ==
    IF PlatformClock(t) >= q_reset THEN q_limit ELSE q_remaining

\* the wait computed without the buffer
WaitTimeNoBuffer(reset, now) == reset - now

\* the difference taken the wrong way round
WaitTimeSwapped(reset, now) == now - reset + ResetBuffer

\* wait_time = int(reset_time) - int(time.time()) + 120
WaitTime(reset, now) == reset - now + ResetBuffer

RlInit ==
    /\ threads \in 1..MaxThreads
    /\ clock = 0
    /\ skew \in Skews
    /\ q_remaining \in 0..MaxQuota
    /\ q_reset \in {PlatformClock(0) + d : d \in ResetOffsets}
    /\ q_limit \in {60, 5000}
    /\ remaining_requests = 0
    /\ reset_time = 0
    /\ wait_time = 0
    /\ call_clock = 0
    /\ rl_pc = "call"

\* rate_limit = requests.get(".../rate_limit").json()
RlSnapshot ==
    /\ rl_pc = "call"
    /\ remaining_requests' = PlatformRemaining(clock)
    /\ reset_time' = q_reset
    /\ rl_pc' = "snapshot"
    /\ UNCHANGED <<threads, clock, skew, q_remaining, q_reset, q_limit, wait_time,
                   call_clock>>
    /\ UNCHANGED <<dlVars, bulkVars, instVars, singleVars, resVars, apiVars>>

\* the request fails or its body is no JSON: CodeQLError
RlRequestFails ==
    /\ rl_pc = "call"
    /\ rl_pc' = "raised"
    /\ UNCHANGED <<threads, clock, skew, q_remaining, q_reset, q_limit,
                   remaining_requests, reset_time, wait_time, call_clock>>
    /\ UNCHANGED <<dlVars, bulkVars, instVars, singleVars, resVars, apiVars>>

\* the comparison with threads + 3, the sleep, the return
RlThrottle ==
    /\ rl_pc = "snapshot"
    /\ call_clock' = clock
    /\ LET w == WaitTime(reset_time, clock)
       IN  IF remaining_requests < threads + SafetyMargin /\ w > 0
           THEN /\ wait_time' = w
                /\ clock' = clock + w
           ELSE UNCHANGED <<wait_time, clock>>
    /\ rl_pc' = "returned"
    /\ UNCHANGED <<threads, skew, q_remaining, q_reset, q_limit,
                   remaining_requests, reset_time>>
    /\ UNCHANGED <<dlVars, bulkVars, instVars, singleVars, resVars, apiVars>>

RlNext ==
    \/ RlSnapshot
    \/ RlRequestFails
    \/ RlThrottle

\* one validate_rate_limit call, nothing else running
InitRateLimit == RlInit /\ DlIdle /\ BulkIdle /\ InstIdle /\ SingleIdle /\ ResIdle /\ ApiIdle

SpecRateLimit == InitRateLimit /\ [][RlNext]_vars

Catalog == << <<"a/x", "a/n">>, <<"b/x", "c/y">> >>

SearchPage(p) == IF p <= Len(Catalog) THEN Catalog[p] ELSE <<>>

\* json.dumps(list): "[", the items separated by ",", "]"
RECURSIVE JsonItems(_)
JsonItems(l) ==
    IF l = <<>> THEN <<>>
    ELSE IF Len(l) = 1 THEN <<l[1]>>
    ELSE <<l[1], ",">> \o JsonItems(Tail(l))

JsonDumps(l) == <<"[">> \o JsonItems(l) \o <<"]">>

\* the text is a JSON array
IsJsonArray(t) ==
    /\ Len(t) >= 2
    /\ t[1] = "["
    /\ t[Len(t)] = "]"
    /\ Len(t) > 2 => Len(t) % 2 = 1
    /\ \A j \in 2..(Len(t) - 1) : (j % 2 = 1) <=> (t[j] = ",")

\* json.loads of a JSON array: its items, in order
JsonLoads(t) == [j \in 1..((Len(t) - 1) \div 2) |-> t[2 * j]]

\* the slice written after install i, taken from i instead of i + 1
RemainingFromCurrent(db, i) == SubSeq(db, i + 1, Len(db))

\* remaining = repos_db[i + 1:]
Remaining(db, i) == SubSeq(db, i + 2, Len(db))

\* answers of the platform to an API request, as fetch_repos_from_github_api
\* tells them apart: 2xx with enough quota left, 2xx with 0 < remaining < 7,
\* 2xx with remaining = 0, 4xx, 5xx, no answer, a body that is no JSON
ApiAnswers == {"ok", "low", "zero", "4xx", "5xx", "neterr", "badjson"}

\* the threads argument of a bulk run
BulkThreads == 4

\* the timeout of requests.get in fetch_repos_from_github_api and in
\* validate_rate_limit: none is passed
ApiTimeout == "None"

\* a request to a server that never answers: with a timeout it ends in an
\* exception, without one the call never returns
OnSilence(timeout) == IF timeout = "None" THEN "blocked" ELSE "raised"

\* the exception fetch_repos_from_github_api raises for an answer
\* every HTTP error reported as the generic error
ApiExceptionMasked(ans) == "CodeQLError"

\* every failure reported as a configuration error
ApiExceptionAllConfig(ans) == "CodeQLConfigError"

ApiException(ans) == IF ans = "4xx" THEN "CodeQLConfigError" ELSE "CodeQLError"

\* a pre-existing checkpoint file of an earlier run
OldCheckpoints == {NoFile, File(JsonDumps(<<"old/r">>))}

BulkInit ==
    /\ token \in BOOLEAN
    /\ max_repos \in 0..MaxRepos
    /\ backup_file \in OldCheckpoints
    /\ twin_file \in OldCheckpoints \ {backup_file}
    /\ repos_db = <<>>
    /\ curr_page = 1
    /\ all_repos = <<>>
    /\ idx = 0
    /\ b_pc = "search"
    /\ b_exc = ""
    /\ api_reissues = 0
    /\ pre_checked = FALSE
    /\ last_req = NoReq
    /\ completed = 0
    /\ ckpt_written = FALSE
    /\ ckpt_failed = FALSE

\* fetch_codeql_dbs ends by raising e
BulkRaise(e) ==
    /\ b_pc' = "raised"
    /\ b_exc' = e

\* one request of fetch_repos_from_github_api and its handling: the request
\* is recorded; an error answer raises; remaining = 0 re-issues the request
ApiRequest(kind, ans) ==
    /\ last_req' = [kind |-> kind, ans |-> ans,
                    ok |-> ans \in {"ok", "low", "zero"},
                    pre |-> pre_checked,
                    post |-> ans \in {"ok", "low", "zero"}, streams |-> 1,
                    page |-> IF kind = "search" THEN curr_page ELSE 0]
    /\ pre_checked' = FALSE
    /\ api_reissues' = IF ans = "zero" THEN api_reissues + 1 ELSE 0

\* search_top_matching_repos: the next search page is requested
BulkSearch ==
    /\ b_pc = "search"
    /\ Len(repos_db) < max_repos
    /\ \E ans \in ApiAnswers \cup {"silent"} :
        /\ ans = "zero" => api_reissues < MaxReissue
        /\ ApiRequest("search", ans)
        /\ IF ans = "silent"
           THEN /\ b_pc' = OnSilence(ApiTimeout)
                /\ b_exc' = IF ApiTimeout = "None" THEN b_exc ELSE "CodeQLError"
                /\ UNCHANGED all_repos
           ELSE IF ans \in {"ok", "low"}
           THEN /\ all_repos' = SearchPage(curr_page)
                /\ b_pc' = "listing"
                /\ UNCHANGED b_exc
           ELSE IF ans = "zero"
           THEN UNCHANGED <<all_repos, b_pc, b_exc>>
           ELSE /\ BulkRaise(ApiException(ans))
                /\ UNCHANGED all_repos
    /\ UNCHANGED <<token, max_repos, backup_file, twin_file, repos_db, curr_page, idx,
                   completed, ckpt_written, ckpt_failed>>
    /\ UNCHANGED <<dlVars, rlVars, instVars, singleVars, resVars, apiVars>>

\* filter_repos_by_db_and_lang: the listing of the next candidate is
\* requested; shape is what the listing holds for the language
BulkListing ==
    /\ b_pc = "listing"
    /\ all_repos # <<>>
    /\ \E ans \in ApiAnswers \cup {"silent"},
          shape \in {"db", "nodb", "errdict"} :
        /\ ans = "zero" => api_reissues < MaxReissue
        /\ ApiRequest("listing", ans)
        /\ IF ans = "silent"
           THEN /\ b_pc' = OnSilence(ApiTimeout)
                /\ b_exc' = IF ApiTimeout = "None" THEN b_exc ELSE "CodeQLError"
                /\ UNCHANGED <<all_repos, repos_db>>
           ELSE IF ans \in {"ok", "low"}
           THEN IF shape = "errdict"
                THEN /\ BulkRaise("CodeQLError")
                     /\ UNCHANGED <<all_repos, repos_db>>
                ELSE /\ repos_db' = IF shape = "db"
                                    THEN Append(repos_db, Head(all_repos))
                                    ELSE repos_db
                     /\ all_repos' = Tail(all_repos)
                     /\ UNCHANGED <<b_pc, b_exc>>
           ELSE IF ans = "zero"
           THEN UNCHANGED <<all_repos, repos_db, b_pc, b_exc>>
           ELSE /\ BulkRaise(ApiException(ans))
                /\ UNCHANGED <<all_repos, repos_db>>
    /\ UNCHANGED <<token, max_repos, backup_file, twin_file, curr_page, idx, completed,
                   ckpt_written, ckpt_failed>>
    /\ UNCHANGED <<dlVars, rlVars, instVars, singleVars, resVars, apiVars>>

\* curr_page += 1; the pages after MaxPage + 1, empty like it, are not told
\* apart from it
NextPage(p) == IF p <= MaxPage THEN p + 1 ELSE p

\* the page is resolved: repos_db += db_in_page; curr_page += 1
BulkPageDone ==
    /\ b_pc = "listing"
    /\ all_repos = <<>>
    /\ curr_page' = NextPage(curr_page)
    /\ b_pc' = "search"
    /\ UNCHANGED <<token, max_repos, backup_file, twin_file, repos_db, all_repos, idx, b_exc,
                   api_reissues, pre_checked, last_req, completed, ckpt_written,
                   ckpt_failed>>
    /\ UNCHANGED <<dlVars, rlVars, instVars, singleVars, resVars, apiVars>>

\* the list taken from an earlier checkpoint when there is one
BulkCollectedResumes ==
    /\ b_pc = "search"
    /\ Len(repos_db) >= max_repos
    /\ repos_db' = IF backup_file.exists /\ IsJsonArray(backup_file.data)
                   THEN JsonLoads(backup_file.data)
                   ELSE SubSeq(repos_db, 1, max_repos)
    /\ b_pc' = "checkpoint"
    /\ UNCHANGED <<token, max_repos, backup_file, twin_file, curr_page,
                   all_repos, idx, b_exc, api_reissues, pre_checked, last_req,
                   completed, ckpt_written, ckpt_failed>>
    /\ UNCHANGED <<dlVars, rlVars, instVars, singleVars, resVars, apiVars>>

\* the while loop ends: return repos_db
BulkCollectedUncut ==
    /\ b_pc = "search"
    /\ Len(repos_db) >= max_repos
    /\ b_pc' = "checkpoint"
    /\ UNCHANGED <<token, max_repos, backup_file, twin_file, repos_db,
                   curr_page, all_repos, idx, b_exc, api_reissues, pre_checked,
                   last_req, completed, ckpt_written, ckpt_failed>>
    /\ UNCHANGED <<dlVars, rlVars, instVars, singleVars, resVars, apiVars>>

\* the while loop ends: return repos_db[:max_repos]
BulkCollected ==
    /\ b_pc = "search"
    /\ Len(repos_db) >= max_repos
    /\ repos_db' = SubSeq(repos_db, 1, max_repos)
    /\ b_pc' = "checkpoint"
    /\ UNCHANGED <<token, max_repos, backup_file, twin_file, curr_page, all_repos, idx, b_exc,
                   api_reissues, pre_checked, last_req, completed, ckpt_written,
                   ckpt_failed>>
    /\ UNCHANGED <<dlVars, rlVars, instVars, singleVars, resVars, apiVars>>

\* the write putting the whole list back instead of the slice
WriteCheckpointFull(l) ==
    /\ backup_file' = File(JsonDumps(repos_db))
    /\ twin_file' = File(JsonDumps(repos_db))
    /\ ckpt_written' = TRUE
    /\ UNCHANGED ckpt_failed

\* write_file_text(backup_file, data): open(..., "w") and write
WriteCheckpoint(l) ==
    /\ backup_file' = File(JsonDumps(l))
    /\ twin_file' = File(JsonDumps(l))
    /\ ckpt_written' = TRUE
    /\ UNCHANGED ckpt_failed

\* write_file_text fails: the file is untouched when open fails, empty when
\* the write after it fails; VulnhallaError leaves fetch_codeql_dbs
WriteCheckpointFails ==
    /\ \E truncated \in BOOLEAN :
        /\ backup_file' = IF truncated THEN File(<<>>) ELSE backup_file
        /\ twin_file' = IF truncated THEN File(<<>>) ELSE twin_file
    /\ ckpt_failed' = TRUE
    /\ UNCHANGED ckpt_written
    /\ BulkRaise("VulnhallaError")

\* write_file_text(backup_file, json.dumps(repos_db)) before the installs
BulkFirstWrite ==
    /\ b_pc = "checkpoint"
    /\ \/ /\ WriteCheckpoint(repos_db)
          /\ b_pc' = IF repos_db = <<>> THEN "unlink" ELSE "install"
          /\ UNCHANGED b_exc
       \/ WriteCheckpointFails
    /\ UNCHANGED <<token, max_repos, repos_db, curr_page, all_repos, idx,
                   api_reissues, pre_checked, last_req, completed>>
    /\ UNCHANGED <<dlVars, rlVars, instVars, singleVars, resVars, apiVars>>

\* multi_thread_db_download without a token: validate_rate_limit(threads)
InstallGate ==
    /\ b_pc = "install"
    /\ ~token
    /\ \/ /\ pre_checked' = TRUE
          /\ b_pc' = "download"
          /\ UNCHANGED b_exc
       \/ /\ BulkRaise("CodeQLError")
          /\ UNCHANGED pre_checked
       \/ /\ b_pc' = OnSilence(ApiTimeout)     \* the server never answers
          /\ b_exc' = IF ApiTimeout = "None" THEN b_exc ELSE "CodeQLError"
          /\ UNCHANGED pre_checked
    /\ UNCHANGED <<token, max_repos, backup_file, twin_file, repos_db, curr_page, all_repos,
                   idx, api_reissues, last_req, completed, ckpt_written,
                   ckpt_failed>>
    /\ UNCHANGED <<dlVars, rlVars, instVars, singleVars, resVars, apiVars>>

\* SmartDL used whatever the token
StreamsAlwaysThreaded(tok) == BulkThreads

\* the connections one download uses: custom_download is one stream,
\* SmartDL gets threads=threads
Streams(tok) == IF tok THEN 1 ELSE BulkThreads

\* the download request: custom_download(url, dest) with a token, SmartDL
\* after the gate without one; a failed download raises CodeQLError
InstallDownload ==
    /\ \/ b_pc = "install" /\ token
       \/ b_pc = "download"
    /\ \E ok \in BOOLEAN :
        /\ last_req' = [kind |-> "download", ans |-> IF ok THEN "ok" ELSE "fail",
                        ok |-> ok, pre |-> pre_checked, post |-> FALSE,
                        streams |-> Streams(token), page |-> 0]
        /\ IF ok
           THEN b_pc' = "extract" /\ UNCHANGED b_exc
           ELSE BulkRaise("CodeQLError")
    /\ pre_checked' = FALSE
    /\ UNCHANGED <<token, max_repos, backup_file, twin_file, repos_db, curr_page, all_repos,
                   idx, api_reissues, completed, ckpt_written, ckpt_failed>>
    /\ UNCHANGED <<dlVars, rlVars, instVars, singleVars, resVars, apiVars>>

\* unzip_file and the rename: download_and_extract_db returns, or raises
\* CodeQLError (corrupt archive, extraction failure, rename retries spent)
InstallExtract ==
    /\ b_pc = "extract"
    /\ \/ /\ completed' = completed + 1
          /\ b_pc' = "rewrite"
          /\ UNCHANGED b_exc
       \/ /\ BulkRaise("CodeQLError")
          /\ UNCHANGED completed
    /\ UNCHANGED <<token, max_repos, backup_file, twin_file, repos_db, curr_page, all_repos,
                   idx, api_reissues, pre_checked, last_req, ckpt_written,
                   ckpt_failed>>
    /\ UNCHANGED <<dlVars, rlVars, instVars, singleVars, resVars, apiVars>>

\* remaining = repos_db[i + 1:]; write_file_text(backup_file, ...); next i
\* the checkpoint removed after each install instead of rewritten
BulkRewriteUnlinks ==
    /\ b_pc = "rewrite"
    /\ backup_file' = NoFile
    /\ twin_file' = NoFile
    /\ idx' = idx + 1
    /\ b_pc' = IF idx + 1 < Len(repos_db) THEN "install" ELSE "unlink"
    /\ UNCHANGED <<token, max_repos, repos_db, curr_page, all_repos, b_exc,
                   api_reissues, pre_checked, last_req, completed, ckpt_written,
                   ckpt_failed>>
    /\ UNCHANGED <<dlVars, rlVars, instVars, singleVars, resVars, apiVars>>

BulkRewrite ==
    /\ b_pc = "rewrite"
    /\ \/ /\ WriteCheckpoint(Remaining(repos_db, idx))
          /\ idx' = idx + 1
          /\ b_pc' = IF idx + 1 < Len(repos_db) THEN "install" ELSE "unlink"
          /\ UNCHANGED b_exc
       \/ /\ WriteCheckpointFails
          /\ UNCHANGED idx
    /\ UNCHANGED <<token, max_repos, repos_db, curr_page, all_repos,
                   api_reissues, pre_checked, last_req, completed>>
    /\ UNCHANGED <<dlVars, rlVars, instVars, singleVars, resVars, apiVars>>

\* if os.path.exists(backup_file): os.unlink; a failure is only logged
BulkUnlink ==
    /\ b_pc = "unlink"
    /\ \E removed \in BOOLEAN :
        /\ backup_file' = IF backup_file.exists /\ removed THEN NoFile
                          ELSE backup_file
        /\ twin_file' = IF twin_file.exists /\ removed THEN NoFile
                        ELSE twin_file
    /\ b_pc' = "done"
    /\ UNCHANGED <<token, max_repos, repos_db, curr_page, all_repos, idx, b_exc,
                   api_reissues, pre_checked, last_req, completed, ckpt_written,
                   ckpt_failed>>
    /\ UNCHANGED <<dlVars, rlVars, instVars, singleVars, resVars, apiVars>>

BulkNext ==
    \/ BulkSearch
    \/ BulkListing
    \/ BulkPageDone
    \/ BulkCollected
    \/ BulkFirstWrite
    \/ InstallGate
    \/ InstallDownload
    \/ InstallExtract
    \/ BulkRewrite
    \/ BulkUnlink

\* one bulk run of fetch_codeql_dbs
Init == BulkInit /\ DlIdle /\ RlIdle /\ InstIdle /\ SingleIdle /\ ResIdle /\ ApiIdle

Next == BulkNext

Spec == Init /\ [][Next]_vars

(***************************************************************************)
(* Properties of the bulk run                                              *)
(***************************************************************************)
\* C7: every request answered successfully (search page, artifact listing,
\* artifact download with and without a token) was gated by a quota check:
\* validate_rate_limit before it or the inline header check after it.
C7_EveryRequestGated ==
    (last_req.kind \in {"search", "listing", "download"} /\ last_req.ok) =>
        (last_req.pre \/ last_req.post)

\* the run was halted while the installs were in progress, by an error
\* other than a failed checkpoint write
InstallPhaseHalt ==
    /\ b_pc = "raised"
    /\ ckpt_written
    /\ b_exc # "VulnhallaError"

\* C8: an install error that is not a configuration error does not abort
\* the batch: only a CodeQLConfigError halts the run during the installs.
C8_FailureIsolation ==
    InstallPhaseHalt => b_exc = "CodeQLConfigError"

\* the descriptors the checkpoint file holds
CheckpointHolds(l) ==
    /\ backup_file.exists
    /\ IsJsonArray(backup_file.data)
    /\ JsonLoads(backup_file.data) = l

\* C9: once k of the n collected descriptors have been processed (k < n,
\* install k + 1 not yet completed), the checkpoint file holds exactly
\* descriptors k + 1 .. n in their original order.
C9_CheckpointAfterK ==
    b_pc \in {"install", "download", "extract"} =>
        /\ idx = completed
        /\ idx < Len(repos_db)
        /\ CheckpointHolds(SubSeq(repos_db, idx + 1, Len(repos_db)))

\* C9 witness: two of three descriptors are processed, the third install is
\* about to start.
C9_Witness ==
    /\ b_pc = "install"
    /\ idx = 2
    /\ Len(repos_db) = 3
    /\ CheckpointHolds(<<repos_db[3]>>)

\* the run is between its first checkpoint write and the deletion, and no
\* checkpoint write has failed
CheckpointLive ==
    /\ ckpt_written
    /\ ~ckpt_failed
    /\ b_pc \in {"install", "download", "extract", "rewrite", "unlink", "raised"}

IsSuffix(t, l) ==
    /\ Len(t) <= Len(l)
    /\ SubSeq(l, Len(l) - Len(t) + 1, Len(l)) = t

\* the checkpoint file is gone only once every install has completed
DeletedOnlyWhenDone ==
    (ckpt_written /\ ~backup_file.exists) =>
        (b_pc = "done" /\ completed = Len(repos_db))

\* C11 (as stated): the checkpoint file is removed only after every
\* collected descriptor has been installed, and whenever the run ends by an
\* error raised during the install phase, the file is on disk and lists the
\* descriptors that remain to be installed.
C11_CheckpointKeptOnHalt ==
    /\ DeletedOnlyWhenDone
    /\ (b_pc = "raised" /\ ckpt_written) =>
           /\ backup_file.exists
           /\ IsJsonArray(backup_file.data)
           /\ IsSuffix(SubSeq(repos_db, completed + 1, Len(repos_db)),
                       JsonLoads(backup_file.data))

\* C11 (amended): the checkpoint file is removed only after every collected
\* descriptor has been installed, and whenever the run ends by an error
\* raised by an install (not by a failed write of the checkpoint file
\* itself), the file is on disk and lists exactly the descriptors whose
\* install has not completed, the failed one first.
C11_CheckpointKeptOnInstallError ==
    /\ DeletedOnlyWhenDone
    /\ InstallPhaseHalt =>
           /\ completed < Len(repos_db)
           /\ CheckpointHolds(SubSeq(repos_db, completed + 1, Len(repos_db)))

\* C11 witness: the second of three installs raised and the checkpoint
\* lists the second and third descriptors.
C11_Witness ==
    /\ b_pc = "raised"
    /\ b_exc = "CodeQLError"
    /\ completed = 1
    /\ Len(repos_db) = 3
    /\ CheckpointHolds(SubSeq(repos_db, 2, 3))

\* C12: a search or listing request answered with a 4xx status (403
\* included) raises CodeQLConfigError and ends the run: no step follows a
\* raise, nothing was downloaded or installed, and no step of the search
\* phase touches the checkpoint file, which is therefore as it was before
\* the search began.
C12_ForbiddenSearchHalts ==
    [][ /\ b_pc # "raised"
        /\ (b_pc \in {"search", "listing"}) =>
               /\ backup_file' = backup_file
               /\ completed' = 0
               /\ ~ckpt_written'
        /\ (last_req' # last_req /\ last_req'.kind \in {"search", "listing"}
              /\ last_req'.ans = "4xx") =>
               /\ b_pc' = "raised"
               /\ b_exc' = "CodeQLConfigError" ]_vars

\* C12 witness: the listing request of a bulk run was answered 4xx, the run
\* stopped with CodeQLConfigError and the checkpoint of an earlier run is
\* untouched.
C12_Witness ==
    /\ b_pc = "raised"
    /\ b_exc = "CodeQLConfigError"
    /\ last_req.kind = "listing"
    /\ last_req.ans = "4xx"
    /\ ~ckpt_written
    /\ backup_file = File(JsonDumps(<<"old/r">>))

-----------------------------------------------------------------------------
\* download_and_extract_db: stage the archive, extract it into
\* output/databases/<lang>/<repo>/, rename the extracted root to <repo>.
\* Directory names: "codeql_db", "lang" (the directory named after the
\* language), "repo" (the directory named after the repository), "other".

MaxRuns == 3

RenameAttempts == 3

ArchiveLayouts == {{"codeql_db"}, {"lang"}, {"codeql_db", "lang"}, {"other"}}

ZipKinds == {"good", "badzip", "badcrc"}

\* the directories get_all_dbs can list as a database of the repository
DbRoots == {"codeql_db", "lang", "repo"}

InstRaise(e) ==
    /\ i_pc' = "raised"
    /\ i_exc' = e

\* a call of download_and_extract_db begins
InstStart ==
    /\ i_pc' = "download"
    /\ i_exc' = ""
    /\ rename_tries' = 0
    /\ rename_sleeps' = <<>>
    /\ runs' = runs + 1

\* zip_path = multi_thread_db_download(...): the staged archive is whatever
\* the download left, or the download raises
InstDownload ==
    /\ i_pc = "download"
    /\ \/ /\ \E kind \in ZipKinds : zip_file' = kind
          /\ i_pc' = "unzip"
          /\ UNCHANGED i_exc
       \/ /\ InstRaise("CodeQLError")
          /\ UNCHANGED zip_file
    /\ UNCHANGED <<arch_tops, db_dir, db_markers, rename_tries, rename_sleeps, runs,
                   first_dir, first_markers>>
    /\ UNCHANGED <<dlVars, rlVars, bulkVars, singleVars, resVars, apiVars>>

\* unzip_file: extractall without any check before it; an archive that does
\* not open extracts nothing, a member that fails its CRC stops the
\* extraction after the members before it were written
InstUnzip ==
    /\ i_pc = "unzip"
    /\ \/ /\ zip_file = "good"
          /\ db_dir' = db_dir \cup arch_tops
          /\ db_markers' = db_markers \cup (arch_tops \cap DbRoots)
          /\ i_pc' = "rename"
          /\ UNCHANGED i_exc
       \/ /\ zip_file = "badcrc"
          /\ \E part \in SUBSET arch_tops : db_dir' = db_dir \cup part
          /\ UNCHANGED db_markers
          /\ InstRaise("CodeQLError")
       \/ /\ zip_file \in {"badzip", "good"}   \* BadZipFile, or OSError
          /\ UNCHANGED <<db_dir, db_markers>>
          /\ InstRaise("CodeQLError")
    /\ UNCHANGED <<arch_tops, zip_file, rename_tries, rename_sleeps, runs, first_dir,
                   first_markers>>
    /\ UNCHANGED <<dlVars, rlVars, bulkVars, singleVars, resVars, apiVars>>

\* source_path: codeql_db if present, else the language directory
SourcePath(dir) ==
    IF "codeql_db" \in dir THEN "codeql_db"
    ELSE IF "lang" \in dir THEN "lang" ELSE "None"

\* os.rename(source_path, target_path) on a set of names
Rename(names, src) ==
    IF src \in names THEN (names \ {src}) \cup {"repo"} ELSE names

\* time.sleep(0.5) on every attempt
RenameDelayFlat(att) == 5

\* time.sleep(0.5 * (attempt + 1)), in tenths of a second
RenameDelay(att) == 5 * (att + 1)

\* the rename loop, one attempt per step: the sleep, then os.rename
InstRename ==
    /\ i_pc = "rename"
    /\ IF SourcePath(db_dir) # "None" /\ "repo" \notin db_dir
       THEN /\ rename_sleeps' = Append(rename_sleeps, RenameDelay(rename_tries))
            /\ \/ /\ db_dir' = Rename(db_dir, SourcePath(db_dir))
                  /\ db_markers' = Rename(db_markers, SourcePath(db_dir))
                  /\ i_pc' = "returned"
                  /\ UNCHANGED <<i_exc, rename_tries>>
               \/ /\ IF rename_tries = RenameAttempts - 1
                     THEN InstRaise("CodeQLError") /\ UNCHANGED rename_tries
                     ELSE /\ rename_tries' = rename_tries + 1
                          /\ UNCHANGED <<i_pc, i_exc>>
                  /\ UNCHANGED <<db_dir, db_markers>>
       ELSE /\ i_pc' = "returned"
            /\ UNCHANGED <<i_exc, db_dir, db_markers, rename_tries,
                           rename_sleeps>>
    /\ UNCHANGED <<arch_tops, zip_file, runs, first_dir, first_markers>>
    /\ UNCHANGED <<dlVars, rlVars, bulkVars, singleVars, resVars, apiVars>>

\* the same descriptor installed again after a call that returned
InstAgain ==
    /\ i_pc = "returned"
    /\ runs < MaxRuns
    /\ InstStart
    /\ first_dir' = IF runs = 1 THEN db_dir ELSE first_dir
    /\ first_markers' = IF runs = 1 THEN db_markers ELSE first_markers
    /\ UNCHANGED <<arch_tops, zip_file, db_dir, db_markers>>
    /\ UNCHANGED <<dlVars, rlVars, bulkVars, singleVars, resVars, apiVars>>

InstNext ==
    \/ InstDownload
    \/ InstUnzip
    \/ InstRename
    \/ InstAgain

\* a first install of an artifact into an empty database folder
InitInstall ==
    /\ i_pc = "download"
    /\ i_exc = ""
    /\ arch_tops \in ArchiveLayouts
    /\ zip_file = "none"
    /\ db_dir = {}
    /\ db_markers = {}
    /\ rename_tries = 0
    /\ rename_sleeps = <<>>
    /\ runs = 1
    /\ first_dir = {}
    /\ first_markers = {}
    /\ DlIdle /\ RlIdle /\ BulkIdle /\ SingleIdle /\ ResIdle /\ ApiIdle

SpecInstall == InitInstall /\ [][InstNext]_vars

\* C14: a second download_and_extract_db of the same descriptor (its archive
\* holding the one root codeql_db) that returns leaves the database folder
\* exactly as the first call left it: no second root directory next to the
\* renamed one.
C14_InstallIdempotent ==
    (runs = 2 /\ i_pc = "returned" /\ arch_tops = {"codeql_db"}) =>
        (db_dir = first_dir /\ db_markers = first_markers)

\* C16: an archive that fails the integrity check is never carried past the
\* extraction step: it is not extracted, the staged file is removed and the
\* download redone, so no install ends, by error or normally, with a corrupt
\* archive staged, and none of its members is on disk.
C16_CorruptArchiveRedone ==
    (zip_file \in {"badzip", "badcrc"}) => i_pc = "unzip"

-----------------------------------------------------------------------------
\* analyze_pipeline with a single repository: fetch_codeql_dbs calls
\* download_db_by_name (resolver, install, and the local-build fallback),
\* then the pipeline runs the queries.

Langs == {"python", "c"}

\* create_database passes --source-root for these languages only
NeedsSourceRoot(l) == l \in {"python", "javascript", "ruby"}

\* what the resolver call ends with: a descriptor, an empty list, or an
\* error answer of the platform
LookupOutcomes == {"db", "nodb", "4xx", "5xx", "neterr", "badjson"}

\* what an earlier run can have left in output/databases/<lang>/<repo>/
EarlierDirs == {{}, {"repo"}, {"codeql_db"}}

InitSingle ==
    /\ lang \in Langs
    /\ local_source_dir \in {"None", "local"}
    /\ tool \in {"ok", "missing", "fails"}
    /\ s_pc = "lookup"
    /\ s_exc = ""
    /\ lookup = ""
    /\ clone_dir = FALSE
    /\ build_call = NoBuild
    /\ queries_run = FALSE
    /\ cfg_seen = FALSE
    /\ clone_started = FALSE
    /\ acquired = FALSE
    /\ i_pc = "idle"
    /\ i_exc = ""
    /\ arch_tops \in ArchiveLayouts
    /\ zip_file = "none"
    /\ db_dir \in EarlierDirs
    /\ db_markers = db_dir
    /\ rename_tries = 0
    /\ rename_sleeps = <<>>
    /\ runs = 0
    /\ first_dir = {}
    /\ first_markers = {}
    /\ DlIdle /\ RlIdle /\ BulkIdle /\ ResIdle /\ ApiIdle

\* repo_db = filter_repos_by_db_and_lang([repo], lang); repo_db[0]:
\* CodeQLConfigError, CodeQLError and IndexError all land in the handler
SingleLookup ==
    /\ s_pc = "lookup"
    /\ \E out \in LookupOutcomes :
        /\ lookup' = out
        /\ IF out = "db"
           THEN /\ s_pc' = "install"
                /\ InstStart
                /\ UNCHANGED cfg_seen
           ELSE /\ s_pc' = "fallback"
                /\ cfg_seen' = (out # "nodb"
                                 /\ ApiException(out) = "CodeQLConfigError")
                /\ UNCHANGED <<i_pc, i_exc, rename_tries, rename_sleeps, runs>>
    /\ UNCHANGED <<lang, local_source_dir, tool, s_exc, clone_dir, build_call,
                   queries_run, clone_started, acquired>>
    /\ UNCHANGED <<arch_tops, zip_file, db_dir, db_markers, first_dir,
                   first_markers>>
    /\ UNCHANGED <<dlVars, rlVars, bulkVars, resVars, apiVars>>

\* download_and_extract_db returned: download_db_by_name returns
SingleInstalled ==
    /\ s_pc = "install"
    /\ i_pc = "returned"
    /\ s_pc' = "returned"
    /\ acquired' = TRUE
    /\ UNCHANGED <<lang, local_source_dir, tool, s_exc, lookup, clone_dir,
                   build_call, queries_run, cfg_seen, clone_started>>
    /\ UNCHANGED <<dlVars, rlVars, bulkVars, instVars, resVars, apiVars>>

\* download_and_extract_db raised: except (CodeQLConfigError, CodeQLError,
\* IndexError)
SingleInstallRaised ==
    /\ s_pc = "install"
    /\ i_pc = "raised"
    /\ s_pc' = "fallback"
    /\ UNCHANGED <<lang, local_source_dir, tool, s_exc, lookup, clone_dir,
                   build_call, queries_run, cfg_seen, clone_started, acquired>>
    /\ UNCHANGED <<dlVars, rlVars, bulkVars, instVars, resVars, apiVars>>

\* the handler: db_dir = .../<repo>/codeql_db is created in both branches
SingleFallback ==
    /\ s_pc = "fallback"
    /\ db_dir' = db_dir \cup {"codeql_db"}
    /\ s_pc' = IF local_source_dir = "None" THEN "clone" ELSE "build"
    /\ UNCHANGED <<lang, local_source_dir, tool, s_exc, lookup, clone_dir,
                   build_call, queries_run, cfg_seen, clone_started, acquired>>
    /\ UNCHANGED <<i_pc, i_exc, arch_tops, zip_file, db_markers, rename_tries, rename_sleeps,
                   runs, first_dir, first_markers>>
    /\ UNCHANGED <<dlVars, rlVars, bulkVars, resVars, apiVars>>

\* clone_repo(repo_name, source_dir), called inside the handler: its
\* CodeQLError leaves download_db_by_name and fetch_codeql_dbs
SingleClone ==
    /\ s_pc = "clone"
    /\ clone_started' = TRUE
    /\ \/ /\ clone_dir' = TRUE
          /\ s_pc' = "build"
          /\ UNCHANGED s_exc
       \/ /\ clone_dir' = FALSE
          /\ s_pc' = "raised"
          /\ s_exc' = "CodeQLError"
    /\ UNCHANGED <<lang, local_source_dir, tool, lookup, build_call,
                   queries_run, cfg_seen, acquired>>
    /\ UNCHANGED <<dlVars, rlVars, bulkVars, instVars, resVars, apiVars>>

\* the source_root argument download_db_by_name passes to create_database
SourceRootArg == local_source_dir

\* the marker file looked for and never found
MarkerNeverSeen(markers) == FALSE

\* os.path.exists(os.path.join(db_dir, "codeql-database.yml"))
MarkerExists(markers) == "codeql_db" \in markers

\* if the marker is absent: create_database(source_root=local_source_dir,
\* db_path=db_dir, lang=lang) under except Exception; the function returns
\* whatever happened
SingleBuild ==
    /\ s_pc = "build"
    /\ s_pc' = "returned"
    /\ IF MarkerExists(db_markers)
       THEN /\ acquired' = TRUE
            /\ UNCHANGED <<build_call, db_dir, db_markers>>
       ELSE LET typeError == NeedsSourceRoot(lang) /\ SourceRootArg = "None"
                spawned   == ~typeError /\ tool # "missing"
                built     == spawned /\ tool = "ok"
            IN  /\ build_call' = [called |-> TRUE,
                                  source_root |-> SourceRootArg,
                                  cwd |-> SourceRootArg,
                                  spawned |-> spawned]
                /\ db_dir' = IF built THEN db_dir \cup {"codeql_db"}
                             ELSE db_dir \ {"codeql_db"}
                /\ db_markers' = IF built THEN db_markers \cup {"codeql_db"}
                                 ELSE db_markers
                /\ acquired' = (acquired \/ built)
    /\ UNCHANGED <<lang, local_source_dir, tool, s_exc, lookup, clone_dir,
                   queries_run, cfg_seen, clone_started>>
    /\ UNCHANGED <<i_pc, i_exc, arch_tops, zip_file, rename_tries, rename_sleeps, runs,
                   first_dir, first_markers>>
    /\ UNCHANGED <<dlVars, rlVars, bulkVars, resVars, apiVars>>

\* analyze_pipeline, step 2: compile_and_run_codeql_queries, reached
\* whenever fetch_codeql_dbs returned; the pipeline passes no
\* local_source_dir
PipelineQueries ==
    /\ s_pc = "returned"
    /\ local_source_dir = "None"
    /\ queries_run' = TRUE
    /\ s_pc' = "queries"
    /\ UNCHANGED <<lang, local_source_dir, tool, s_exc, lookup, clone_dir,
                   build_call, cfg_seen, clone_started, acquired>>
    /\ UNCHANGED <<dlVars, rlVars, bulkVars, instVars, resVars, apiVars>>

SingleNext ==
    \/ SingleLookup
    \/ InstDownload
    \/ InstUnzip
    \/ InstRename
    \/ SingleInstalled
    \/ SingleInstallRaised
    \/ SingleFallback
    \/ SingleClone
    \/ SingleBuild
    \/ PipelineQueries

SpecSingle == InitSingle /\ [][SingleNext]_vars

\* fetch_codeql_dbs has returned to the pipeline
FetchReturned == s_pc \in {"returned", "queries"}

\* C13: once an API call or download of a single-repository run has raised
\* CodeQLConfigError, the run is over with that error: fetch_codeql_dbs
\* raises it, and no clone or build is started.
C13_ConfigErrorPropagates ==
    cfg_seen =>
        /\ s_pc = "raised"
        /\ s_exc = "CodeQLConfigError"
        /\ ~clone_started
        /\ ~build_call.called

\* C15: after a successful acquisition (install returned, build succeeded,
\* or an existing database found) of an artifact with one root directory,
\* output/databases/<lang>/<repo>/ holds exactly one recognized database
\* root.
C15_OneRecognizedRoot ==
    (FetchReturned /\ acquired /\ Cardinality(arch_tops \cap DbRoots) = 1) =>
        Cardinality(db_dir \cap DbRoots) = 1

\* C17: with no local_source_dir, the database builder is called with the
\* clone as its source root and working directory.
C17_BuilderRunsOnClone ==
    (build_call.called /\ local_source_dir = "None") =>
        /\ clone_dir
        /\ build_call.source_root = "clone"
        /\ build_call.cwd = "clone"

\* C18: when the resolver returned no descriptor and the builder tool works,
\* fetch_codeql_dbs returns with a database (marker present) at the root a
\* remote install produces, output/databases/<lang>/<repo>/<repo>.
C18_FallbackBuildsCanonical ==
    (FetchReturned /\ lookup = "nodb" /\ tool = "ok") => "repo" \in db_markers

\* C19: the queries are run only when the database folder of the repository
\* holds a database with its marker file; stated for runs whose resolver
\* found no artifact and whose builder tool is installed, so that neither
\* the shape of an archive nor the start-up validation plays a part.
C19_QueriesNeedDatabase ==
    (queries_run /\ lookup = "nodb" /\ tool # "missing") =>
        (db_markers \cap DbRoots) # {}

\* C20: when the fallback needs the builder and the tool is missing, the
\* run ends with a configuration error raised to the caller, not with a
\* normal return.
C20_MissingBuilderRaises ==
    (build_call.called /\ tool = "missing") =>
        (s_pc = "raised" /\ s_exc = "CodeQLConfigError")

-----------------------------------------------------------------------------
\* filter_repos_by_db_and_lang(repos, lang): one listing request per
\* candidate, in order.  Candidate k is known by its position; r_cands[k] is
\* the answer its listing request gets.

MaxCand == 2

ResLangs == {"c", "cpp", "python"}

\* a listing entry: its "language" ("None": the key is missing) and whether
\* it has a "url"
ListingEntries ==
    { [language |-> "cpp", url |-> TRUE], [language |-> "cpp", url |-> FALSE],
      [language |-> "python", url |-> TRUE], [language |-> "c", url |-> TRUE],
      [language |-> "None", url |-> TRUE] }

ListingLists ==
    {<<>>} \cup {<<e>> : e \in ListingEntries}
           \cup {<<e, f>> : e \in ListingEntries, f \in ListingEntries}

\* what fetch_repos_from_github_api gives for a listing: a list, a dict
\* (keys), another JSON value, or an exception (ans)
ListingAnswers ==
    {[kind |-> "list", entries |-> l, keys |-> {}, ans |-> "ok"] :
        l \in ListingLists}
    \cup {[kind |-> "dict", entries |-> <<>>, keys |-> K, ans |-> "ok"] :
        K \in {{"message"}, {"error"}, {"documentation_url"}, {}}}
    \cup {[kind |-> "other", entries |-> <<>>, keys |-> {}, ans |-> "ok"]}
    \cup {[kind |-> "raise", entries |-> <<>>, keys |-> {}, ans |-> a] :
        a \in {"4xx", "5xx", "neterr", "badjson"}}

\* the language compared without the mapping of c
NormIdentity(l) == l

\* gh_lang = "cpp" if lang == "c" else lang
Norm(l) == IF l = "c" THEN "cpp" ELSE l

\* the dictionary appended for entry j of candidate k
Descriptor(k, j) ==
    [repo_name |-> <<"repo", k>>, html_url |-> <<"html", k>>,
     db_url |-> <<"url", k, j>>, forks |-> <<"forks", k>>,
     stars |-> <<"stars", k>>]

\* for db in db_info: entries of another language and entries without a
\* url are passed over
RECURSIVE MatchFrom(_, _, _, _)
MatchFrom(k, entries, j, gh) ==
    IF j > Len(entries) THEN <<>>
    ELSE LET db == entries[j]
         IN  IF db.language # "None" /\ db.language = gh /\ db.url
             THEN <<Descriptor(k, j)>> \o MatchFrom(k, entries, j + 1, gh)
             ELSE MatchFrom(k, entries, j + 1, gh)

\* every dict taken for an error answer
IsErrorPayloadAnyDict(a) == a.kind = "dict"

\* "message" in db_info or "error" in db_info
IsErrorPayload(a) ==
    a.kind = "dict" /\ (a.keys \cap {"message", "error"}) # {}

InitResolver ==
    /\ r_lang \in ResLangs
    /\ r_cands \in UNION {[1..n -> ListingAnswers] : n \in 0..MaxCand}
    /\ r_i = 0
    /\ r_out = <<>>
    /\ r_pc = "loop"
    /\ r_exc = ""
    /\ DlIdle /\ RlIdle /\ BulkIdle /\ InstIdle /\ SingleIdle /\ ApiIdle

\* the loop returning at the first answer that is no list
ResolveCandidateStops ==
    /\ r_pc = "loop"
    /\ r_i < Len(r_cands)
    /\ LET a == r_cands[r_i + 1]
       IN  IF a.kind = "raise"
           THEN /\ r_pc' = "raised"
                /\ r_exc' = ApiException(a.ans)
                /\ UNCHANGED <<r_i, r_out>>
           ELSE IF IsErrorPayload(a)
           THEN /\ r_pc' = "raised"
                /\ r_exc' = "CodeQLError"
                /\ UNCHANGED <<r_i, r_out>>
           ELSE IF a.kind # "list"
           THEN /\ r_pc' = "returned"
                /\ UNCHANGED <<r_i, r_out, r_exc>>
           ELSE /\ r_out' = r_out \o MatchFrom(r_i + 1, a.entries, 1,
                                               Norm(r_lang))
                /\ r_i' = r_i + 1
                /\ UNCHANGED <<r_pc, r_exc>>
    /\ UNCHANGED <<r_lang, r_cands>>
    /\ UNCHANGED <<dlVars, rlVars, bulkVars, instVars, singleVars, apiVars>>

\* one turn of 'for repo in repos'
ResolveCandidate ==
    /\ r_pc = "loop"
    /\ r_i < Len(r_cands)
    /\ LET a == r_cands[r_i + 1]
       IN  IF a.kind = "raise"
           THEN /\ r_pc' = "raised"
                /\ r_exc' = ApiException(a.ans)
                /\ UNCHANGED <<r_i, r_out>>
           ELSE IF IsErrorPayload(a)
           THEN /\ r_pc' = "raised"
                /\ r_exc' = "CodeQLError"
                /\ UNCHANGED <<r_i, r_out>>
           ELSE IF a.kind # "list"
           THEN /\ r_i' = r_i + 1
                /\ UNCHANGED <<r_out, r_pc, r_exc>>
           ELSE /\ r_out' = r_out \o MatchFrom(r_i + 1, a.entries, 1,
                                               Norm(r_lang))
                /\ r_i' = r_i + 1
                /\ UNCHANGED <<r_pc, r_exc>>
    /\ UNCHANGED <<r_lang, r_cands>>
    /\ UNCHANGED <<dlVars, rlVars, bulkVars, instVars, singleVars, apiVars>>

\* return repos_db
ResolveReturn ==
    /\ r_pc = "loop"
    /\ r_i = Len(r_cands)
    /\ r_pc' = "returned"
    /\ UNCHANGED <<r_lang, r_cands, r_i, r_out, r_exc>>
    /\ UNCHANGED <<dlVars, rlVars, bulkVars, instVars, singleVars, apiVars>>

ResolverNext ==
    \/ ResolveCandidate
    \/ ResolveReturn

SpecResolver == InitResolver /\ [][ResolverNext]_vars

\* the answer of the candidate the loop stopped at
StoppedAt == r_cands[r_i + 1]

\* the pairs <<candidate, entry>> a call for language l has to return: the
\* entries with a url whose language is l, or cpp when l is c
Wanted(l) ==
    UNION { { <<k, j>> : j \in
                { i \in 1..Len(r_cands[k].entries) :
                    /\ r_cands[k].kind = "list"
                    /\ r_cands[k].entries[i].url
                    /\ r_cands[k].entries[i].language =
                           (IF l = "c" THEN "cpp" ELSE l) } } :
            k \in 1..Len(r_cands) }

\* the pair a returned descriptor stands for
PairOf(d) == <<d.db_url[2], d.db_url[3]>>

Returned(k, j) == \E p \in 1..Len(r_out) : PairOf(r_out[p]) = <<k, j>>

\* an answer that is incomplete without being an error: no list and no
\* error payload, or a list with an entry lacking its url or its language
PartialAnswer(a) ==
    \/ a.kind = "other"
    \/ a.kind = "dict" /\ (a.keys \cap {"message", "error"}) = {}
    \/ a.kind = "list" /\ \E j \in 1..Len(a.entries) :
           ~a.entries[j].url \/ a.entries[j].language = "None"

C22_LenientUnlessErrorPayload ==
    /\ (r_pc = "raised" /\ StoppedAt.kind # "raise") =>
          /\ r_exc = "CodeQLError"
          /\ StoppedAt.kind = "dict"
          /\ (StoppedAt.keys \cap {"message", "error"}) # {}
    /\ \A k \in 1..r_i :
          ~(r_cands[k].kind = "dict"
              /\ (r_cands[k].keys \cap {"message", "error"}) # {})
    /\ r_pc = "returned" =>
          \A w \in Wanted(r_lang) : Returned(w[1], w[2])

\* C22 witness: a dict without error payload for the first candidate, an
\* entry without url in front of a good one for the second, and the good
\* one is returned.
C22_Witness ==
    /\ r_pc = "returned"
    /\ r_lang = "cpp"
    /\ Len(r_cands) = 2
    /\ r_cands[1].kind = "dict"
    /\ r_cands[1].keys = {"documentation_url"}
    /\ r_cands[2].entries = <<[language |-> "cpp", url |-> FALSE],
                              [language |-> "cpp", url |-> TRUE]>>
    /\ Len(r_out) = 1
    /\ Returned(2, 2)

\* C23: when no call raises, the result holds exactly one descriptor for
\* each entry that has a url and whose language is norm(lang) (cpp for c),
\* in candidate order and then listing order, each with its candidate's
\* repo_name, html_url, stars and forks and the entry's url as db_url.
C23_ResolverResult ==
    r_pc = "returned" =>
        /\ Len(r_out) = Cardinality(Wanted(r_lang))
        /\ \A w \in Wanted(r_lang) : Returned(w[1], w[2])
        /\ \A p \in 1..Len(r_out) :
              /\ PairOf(r_out[p]) \in Wanted(r_lang)
              /\ r_out[p] = Descriptor(r_out[p].db_url[2], r_out[p].db_url[3])
        /\ \A p, q \in 1..Len(r_out) :
              p < q =>
                 \/ PairOf(r_out[p])[1] < PairOf(r_out[q])[1]
                 \/ /\ PairOf(r_out[p])[1] = PairOf(r_out[q])[1]
                    /\ PairOf(r_out[p])[2] < PairOf(r_out[q])[2]

\* C23 witness: lang c, two candidates; cpp entries are returned, in order,
\* and the python and c entries are not.
C23_Witness ==
    /\ r_pc = "returned"
    /\ r_lang = "c"
    /\ Len(r_cands) = 2
    /\ r_cands[1].entries = <<[language |-> "c", url |-> TRUE],
                              [language |-> "cpp", url |-> TRUE]>>
    /\ r_cands[2].entries = <<[language |-> "cpp", url |-> TRUE],
                              [language |-> "python", url |-> TRUE]>>
    /\ r_out = <<Descriptor(1, 2), Descriptor(2, 1)>>

-----------------------------------------------------------------------------
\* further properties of the bulk run

\* C24: a search or listing request answered 4xx ends the run with
\* CodeQLConfigError; one answered 5xx, failing on the network, or with a
\* body that is no JSON ends it with CodeQLError; in neither case does the
\* run go on as if the page or the listing were empty.
C24_SearchErrorClasses ==
    (last_req.kind \in {"search", "listing"}) =>
        /\ last_req.ans = "4xx" =>
              (b_pc = "raised" /\ b_exc = "CodeQLConfigError")
        /\ last_req.ans \in {"5xx", "neterr", "badjson"} =>
              (b_pc = "raised" /\ b_exc = "CodeQLError")

\* C24 witness: a search request was answered 5xx and the run ended with
\* CodeQLError.
C24_Witness ==
    /\ last_req.kind = "search"
    /\ last_req.ans = "5xx"
    /\ b_pc = "raised"
    /\ b_exc = "CodeQLError"

Items(l) == {l[i] : i \in 1..Len(l)}

\* nothing of an earlier checkpoint is in the run's lists
NeverReadsCheckpoint ==
    /\ "old/r" \notin Items(repos_db)
    /\ "old/r" \notin Items(all_repos)

C29_SequentialInstalls ==
    [][ /\ (b_pc = "install" /\ b_pc' # "install") =>
               /\ completed = idx
               /\ idx < Len(repos_db)
               /\ CheckpointHolds(SubSeq(repos_db, idx + 1, Len(repos_db)))
        /\ b_pc' \in {"install", "download", "extract"} => completed' = idx'
        /\ last_req'.kind = "download" =>
               /\ token => (last_req'.streams = 1 /\ ~last_req'.pre)
               /\ ~token => (last_req'.streams = BulkThreads /\ last_req'.pre)
        /\ last_req'.kind \in {"search", "listing"} => last_req'.streams = 1
      ]_vars

\* C29 witness: without a token, the second install is extracting after a
\* download of BulkThreads streams that followed the rate-limit check.
C29_Witness ==
    /\ b_pc = "extract"
    /\ ~token
    /\ idx = 1
    /\ completed = 1
    /\ last_req.kind = "download"
    /\ last_req.streams = BulkThreads
    /\ last_req.pre

\* C30: no request of the run waits for ever: against a server that never
\* answers, the request ends in an error.
C30_RequestsTimeOut ==
    b_pc # "blocked"

-----------------------------------------------------------------------------
\* further properties of the install and of the single-repository run

\* C25: after download_and_extract_db returns for an archive holding
\* codeql_db or the language directory, <repo>/<repo> holds a database, and
\* the root it was taken from (codeql_db before the language directory) is
\* no longer there under its own name.
C25_RootRenamed ==
    (i_pc = "returned" /\ (arch_tops \cap {"codeql_db", "lang"}) # {}) =>
        /\ "repo" \in db_markers
        /\ SourcePath(arch_tops) \notin db_dir

\* C26: in the fallback, while the marker file is at the target path
\* <repo>/codeql_db, no step calls the builder and no step removes or
\* changes the database folder.
C26_ExistingDatabaseKept ==
    [][ (s_pc \in {"fallback", "clone", "build"} /\ "codeql_db" \in db_markers)
          => /\ ~build_call'.called
             /\ db_dir' = db_dir
             /\ db_markers' = db_markers ]_vars

\* C26 witness: the resolver found nothing, the repository was cloned, the
\* marker was there and the run returned without a call of the builder.
C26_Witness ==
    /\ s_pc = "returned"
    /\ lookup = "nodb"
    /\ clone_dir
    /\ ~build_call.called
    /\ "codeql_db" \in db_markers
    /\ acquired

\* C27: when the resolver finds no database, the run never ends by an
\* exception.
C27_NoDatabaseNeverRaises ==
    lookup = "nodb" => s_pc # "raised"

-----------------------------------------------------------------------------
\* further properties of validate_rate_limit

\* C31: when the snapshot has remaining < threads + 3, the call sleeps
\* reset_epoch - now + 120 seconds if that is positive and not at all
\* otherwise, so on this machine's clock it returns no earlier than
\* reset_epoch + 120; when remaining >= threads + 3 it returns at once.
C31_SleepTarget ==
    rl_pc = "returned" =>
        /\ remaining_requests < threads + 3 =>
              /\ wait_time = (IF reset_time - call_clock + 120 > 0
                              THEN reset_time - call_clock + 120 ELSE 0)
              /\ clock = call_clock + wait_time
              /\ clock >= reset_time + 120
        /\ remaining_requests >= threads + 3 =>
              /\ wait_time = 0
              /\ clock = call_clock

\* C31 witness: too little quota and a reset instant still ahead; the call
\* slept to 120 seconds past it.
C31_Witness ==
    /\ rl_pc = "returned"
    /\ remaining_requests < threads + 3
    /\ reset_time > call_clock
    /\ wait_time = reset_time - call_clock + 120
    /\ clock = reset_time + 120

(***************************************************************************)
(* fetch_repos_from_github_api: one call, with the clock and the headers   *)
(***************************************************************************)
\* nested calls the interpreter allows before it raises RecursionError
RecursionLimit == 3

\* int(remaining_requests) < 7
LowWater == 7

ApiStatuses == {200, 403, 500}

RemainingHeaders == {Absent, 0, 6, 7}

\* X-RateLimit-Reset, relative to now: in the past, now, in the future
ResetHeaders(now) == {Absent, now - 5, now, now + 5}

\* what one requests.get can bring back
ApiReplies(now) ==
    {[kind |-> "neterr", status |-> 0, rem |-> Absent, reset |-> Absent,
      json |-> FALSE]}
    \cup {[kind |-> "resp", status |-> s, rem |-> r, reset |-> t, json |-> j] :
            s \in ApiStatuses, r \in RemainingHeaders,
            t \in ResetHeaders(now), j \in BOOLEAN}

\* the exception raised for a response with an error status
StatusException(s) ==
    IF 400 <= s /\ s < 500 THEN "CodeQLConfigError" ELSE "CodeQLError"

\* remaining_requests and reset_time and int(remaining_requests) < 7
NearLimit(r) == r.rem # Absent /\ r.reset # Absent /\ r.rem < LowWater

\* the sleep after an answer: wait_time + 1 when wait_time > 0
NapAfter(r, now) ==
    IF NearLimit(r) /\ r.reset - now > 0 THEN r.reset - now + 1 ELSE 0

\* the request re-issued by a loop that uses no stack
NestedDepthFlat(d) == d

\* return fetch_repos_from_github_api(url): one more nested call
NestedDepth(d) == d + 1

InitApiCall ==
    /\ a_pc = "send"
    /\ a_exc = ""
    /\ a_depth = 0
    /\ a_now = 100
    /\ a_reply = NoReply
    /\ a_slept = 0
    /\ DlIdle /\ RlIdle /\ BulkIdle /\ InstIdle /\ SingleIdle /\ ResIdle

\* requests.get raises a RequestException
ApiNetworkError ==
    /\ a_pc = "send"
    /\ \E r \in ApiReplies(a_now) :
        /\ r.kind = "neterr"
        /\ a_reply' = r
    /\ a_pc' = "raised"
    /\ a_exc' = "CodeQLError"
    /\ a_slept' = 0
    /\ UNCHANGED <<a_depth, a_now>>
    /\ UNCHANGED <<dlVars, rlVars, bulkVars, instVars, singleVars, resVars>>

\* raise_for_status raises: the status decides the class, the headers are
\* not looked at
ApiHttpError ==
    /\ a_pc = "send"
    /\ \E r \in ApiReplies(a_now) :
        /\ r.kind = "resp"
        /\ r.status >= 400
        /\ a_reply' = r
        /\ a_exc' = StatusException(r.status)
    /\ a_pc' = "raised"
    /\ a_slept' = 0
    /\ UNCHANGED <<a_depth, a_now>>
    /\ UNCHANGED <<dlVars, rlVars, bulkVars, instVars, singleVars, resVars>>

\* a response without error status: the sleep near the limit, the nested
\* call when remaining is 0, response.json() otherwise
ApiAnswered ==
    /\ a_pc = "send"
    /\ \E r \in ApiReplies(a_now) :
        /\ r.kind = "resp"
        /\ r.status < 400
        /\ a_reply' = r
        /\ a_slept' = NapAfter(r, a_now)
        /\ a_now' = a_now + NapAfter(r, a_now)
        /\ IF NearLimit(r) /\ r.rem = 0
           THEN IF a_depth < RecursionLimit
                THEN /\ a_depth' = NestedDepth(a_depth)
                     /\ UNCHANGED <<a_pc, a_exc>>
                ELSE /\ a_pc' = "raised"
                     /\ a_exc' = "RecursionError"
                     /\ UNCHANGED a_depth
           ELSE /\ a_pc' = IF r.json THEN "returned" ELSE "raised"
                /\ a_exc' = IF r.json THEN "" ELSE "CodeQLError"
                /\ UNCHANGED a_depth
    /\ UNCHANGED <<dlVars, rlVars, bulkVars, instVars, singleVars, resVars>>

ApiNext ==
    \/ ApiNetworkError
    \/ ApiHttpError
    \/ ApiAnswered

SpecApiCall == InitApiCall /\ [][ApiNext]_vars

\* the call is scheduled: a request that was sent is answered or fails
SpecApiCallFair == SpecApiCall /\ WF_vars(ApiNext)

\* the platform rejects the request because the quota is used up
QuotaRejection(r) == r.kind = "resp" /\ r.status = 403 /\ r.rem = 0

\* C32: a call that meets a nearly exhausted quota with the reset ahead
\* sleeps until after the reset instant, and a call is never made to raise
\* by quota exhaustion, be it reported in the headers or by a rejection.
C32_SelfThrottles ==
    /\ (a_reply.kind = "resp" /\ a_reply.status < 400 /\ NearLimit(a_reply)
        /\ a_reply.reset > a_now - a_slept) => a_now > a_reply.reset
    /\ a_pc = "raised" => ~QuotaRejection(a_reply)

C33_BoundedRenameRetry ==
    /\ Len(rename_sleeps) <= 3
    /\ \A k \in 1..Len(rename_sleeps) : rename_sleeps[k] = 5 * k
    /\ i_pc = "rename" =>
          /\ Len(rename_sleeps) = rename_tries
          /\ rename_tries < 3
          /\ (SourcePath(db_dir) = "None" \/ "repo" \in db_dir) =>
                rename_sleeps = <<>>
    /\ (i_pc = "returned" /\ rename_sleeps # <<>>) => "repo" \in db_dir
    /\ (i_pc = "returned" /\ rename_sleeps = <<>>) =>
          (SourcePath(db_dir) = "None" \/ "repo" \in db_dir)
    /\ (i_pc = "raised" /\ rename_sleeps # <<>>) =>
          /\ Len(rename_sleeps) = 3
          /\ i_exc = "CodeQLError"
          /\ SourcePath(db_dir) # "None"
          /\ "repo" \notin db_dir

\* three attempts failed, each after its sleep
C33_Witness ==
    /\ i_pc = "raised"
    /\ rename_sleeps = <<5, 10, 15>>
    /\ i_exc = "CodeQLError"
    /\ zip_file = "good"

\* the bulk run is scheduled: a step that can be taken is taken
SpecBulkFair == Spec /\ WF_vars(Next)

\* C34: the search asks for the pages 1, 2, 3, ... one after the other, asks
\* for a page only while fewer than max_repos descriptors are collected,
\* appends each page's descriptors in page order, and returns the first
\* max_repos of them, exactly max_repos many; with max_repos = 0 it sends
\* no request.
C34_CollectionResult ==
    [][/\ b_pc = "search" =>
           IF Len(repos_db) >= max_repos
           THEN /\ b_pc' = "checkpoint"
                /\ repos_db' = SubSeq(repos_db, 1, max_repos)
                /\ Len(repos_db') = max_repos
                /\ last_req' = last_req
                /\ max_repos = 0 => last_req = NoReq
           ELSE /\ last_req'.kind = "search"
                /\ last_req'.page = curr_page
                /\ curr_page' = curr_page
                /\ repos_db' = repos_db
       /\ b_pc = "listing" =>
           /\ IsPrefix(repos_db, repos_db')
           /\ curr_page' \in {curr_page, curr_page + 1}
           /\ (b_pc' = "search" /\ curr_page <= MaxPage) =>
                 curr_page' = curr_page + 1
           /\ b_pc' = "listing" => curr_page' = curr_page
       /\ b_pc \notin {"search", "listing"} =>
           /\ curr_page' = curr_page
           /\ last_req'.kind # "search"]_vars

\* two pages were needed, and the second brought more than was asked for
C34_Witness ==
    /\ b_pc = "checkpoint"
    /\ max_repos = 2
    /\ curr_page = 3
    /\ repos_db = <<"a/n", "b/x">>

\* C35: the search of a bulk run eventually returns or raises, whatever the
\* platform holds.
C35_SearchTerminates == <>(b_pc \notin {"search", "listing"})

\* repo_name.split("/")[1]: the part of org/name after the slash
RepoName(d) ==
    CASE d = "a/x" -> "x"
      [] d = "a/n" -> "n"
      [] d = "b/x" -> "x"
      [] d = "c/y" -> "y"
      [] OTHER -> d

\* output/zip_dbs/<lang>/<repo_name>.zip
ZipPath(d) == <<"output", "zip_dbs", "lang", RepoName(d)>>

\* output/databases/<lang>/<repo_name>
DbPath(d) == <<"output", "databases", "lang", RepoName(d)>>

\* the descriptors of repos_db whose archive was staged in this run
Staged ==
    1..(IF b_pc \in {"extract", "rewrite"} THEN idx + 1 ELSE idx)

\* C37: two descriptors of different org/name installed in one bulk run
\* never use the same staging archive path nor the same database directory.
C37_NoCollision ==
    \A i, j \in Staged :
        repos_db[i] # repos_db[j] =>
            /\ ZipPath(repos_db[i]) # ZipPath(repos_db[j])
            /\ DbPath(repos_db[i]) # DbPath(repos_db[j])

\* C38: once an attempt of the call was answered 416, no later attempt of
\* the call sends a Range header or opens the file in append mode.
C38_FullDownloadSticky ==
    (seen_416 /\ dl_pc \in {"sent", "stream", "done"}) =>
        /\ range_hdr = {}
        /\ mode # "ab"

=============================================================================
